---------------------------- MODULE Spec2Model ----------------------------
(***************************************************************************)
(* ProfileUtils.flattenSchemas (src/unnamed/part_000, lines 78-103).       *)
(*                                                                         *)
(* Objects live in a heap: heap[id] is the object with reference id, a     *)
(* function from the names of its own fields to their values.  An absent   *)
(* field is a name outside DOMAIN.  A schema object has the fields         *)
(*   name          : a string                      (may be absent)         *)
(*   subAttributes : a sequence of references      (may be absent)         *)
(*   displayOrder  : a number      (opaque to flattenSchemas)              *)
(*   meta          : a reference to a nested object (opaque)               *)
(* An optional value (parentSchemaName?, the value read from a field) is   *)
(* <<>> when undefined and <<v>> when it is v.                             *)
(*                                                                         *)
(* A behaviour starts from a forest of schema objects and a parent name,   *)
(* and calls flattenSchemas on the forest or on the array an earlier call  *)
(* returned.  A call is a stack of activations; each turn of forEach and   *)
(* each return is one step.                                                *)
(***************************************************************************)
EXTENDS Integers, Sequences, FiniteSets, TLC

\* Largest number of schema objects in the input forest.
MaxNodes == 4

\* Number of invocations of flattenSchemas in one behaviour.
MaxCalls == 2

\* The largest forest handed to calls whose steps are interleaved.
MaxConcNodes == 2

\* The largest forest of objects that need not have a name.
MaxEdgeNodes == 2

\* The submissions of the application edit form that are followed.
MaxSubmissions == 2

Submissions == 1..MaxSubmissions

\* The calls of updateTenantOwner that are followed.
MaxTenantCalls == 2

TenantCalls == 1..MaxTenantCalls

\* if (response.status !== 200)
StatusOK == 200

\* The most pages the form of the wizard reports.
MaxPages == 4

\* The submissions of the wizard that are followed.
MaxWizardCalls == 2

\* The longest location header, in characters.
MaxLocationLen == 3

\* What the name field of an object may hold: nothing, '' or a name.
EdgeNames == {<<>>, <<"">>, <<"a">>}

\* The names schema objects are drawn from.
Names == {"a", "b"}

\* The values the optional parentSchemaName of an outside call is drawn from.
ParentNames == {<<>>, <<"">>, <<"p">>}

Calls == 1..MaxCalls

VARIABLES
    heap,       \* heap[id]: the object with reference id
    roots,      \* the input forest: the references of its roots, in order
    parentName, \* the parentSchemaName outside calls are made with
    status,     \* status[c]: "idle", "running" or "done"
    args,       \* args[c]: the arguments call c was invoked with
    before,     \* before[c]: the heap when call c was invoked
    stack,      \* stack[c]: the activation frames of call c, innermost last
    result,     \* result[c]: the array call c returned
    form,       \* form[s]: submission s of the application edit form
    tenant,     \* tenant[k]: call k of updateTenantOwner
    wizard      \* the OIDC provider create wizard, once mounted

vars == <<heap, roots, parentName, status, args, before, stack, result, form,
          tenant, wizard>>

-----------------------------------------------------------------------------
(* Values *)

Undefined == <<>>

Some(v) == <<v>>

\* obj.key: the value of the field, undefined when the object has none.
Get(obj, key) == IF key \in DOMAIN obj THEN Some(obj[key]) ELSE Undefined

\* obj.key = v: the field is overwritten, or added when the object has none.
SetField(obj, key, v) ==
    [k \in DOMAIN obj \cup {key} |-> IF k = key THEN v ELSE obj[k]]

\* An undefined operand that leaves nothing in the string.
ToStr_EmptyWhenUndefined(opt) == IF opt = <<>> THEN "" ELSE opt[1]

\* String(v), as string concatenation converts an operand.
ToStr(opt) == IF opt = Undefined THEN "undefined" ELSE opt[1]

\* if (v) on an optional string: undefined and "" are falsy.
Truthy(opt) == opt # Undefined /\ opt[1] # ""

-----------------------------------------------------------------------------
(* The steps of flattenSchemas *)

\* A group of one sub attribute taken for a leaf.
HasSubAttributes_MoreThanOne(schema) ==
    /\ "subAttributes" \in DOMAIN schema
    /\ Len(schema.subAttributes) > 1

\* if (schema.subAttributes): an empty array is truthy.
HasSubAttributes_FieldPresent(schema) == "subAttributes" \in DOMAIN schema

\* schema.subAttributes && schema.subAttributes.length > 0
HasSubAttributes(schema) ==
    /\ "subAttributes" \in DOMAIN schema
    /\ Len(schema.subAttributes) > 0

\* A recursive call that hands down the whole path instead of schema.name.
ChildParentName_Accumulate(parentSchemaName, schema) ==
    IF Truthy(parentSchemaName)
    THEN Some(ToStr(parentSchemaName) \o "." \o ToStr(Get(schema, "name")))
    ELSE Get(schema, "name")

\* The parent name handed to the recursive call: schema.name.
ChildParentName(parentSchemaName, schema) == Get(schema, "name")

\* The recursive call made on the array being flattened, not on the
\* sub attributes.
ChildSchemas_Same(schemas, schema) == schemas

\* The array handed to the recursive call: schema.subAttributes.
ChildSchemas(schemas, schema) == schema.subAttributes

\* A copy that also clones the nested object instead of sharing it.
SpreadCopy_Deep(h, ref) ==
    LET withNested == Append(h, h[h[ref].meta]) IN
    [heap |-> Append(withNested, [h[ref] EXCEPT !.meta = Len(withNested)]),
     ref |-> Len(withNested) + 1]

\* No copy: the name of the input object itself.
SpreadCopy_Alias(h, ref) == [heap |-> h, ref |-> ref]

\* { ...schema }: a new object with the own fields of the old one.
SpreadCopy(h, ref) == [heap |-> Append(h, h[ref]), ref |-> Len(h) + 1]

\* The two operands in the wrong order.
QualifiedName_Swapped(parentSchemaName, schema) ==
    ToStr(Get(schema, "name")) \o "." \o ToStr(parentSchemaName)

\* parentSchemaName + "." + schema.name
QualifiedName(parentSchemaName, schema) ==
    ToStr(parentSchemaName) \o "." \o ToStr(Get(schema, "name"))

\* A copy made only when the name is to change.
LeafCopy_OnlyWhenRenamed(h, ref, parentSchemaName) ==
    IF Truthy(parentSchemaName)
    THEN LET c == SpreadCopy(h, ref) IN
         [c EXCEPT !.heap[c.ref] =
              SetField(@, "name", QualifiedName(parentSchemaName, h[ref]))]
    ELSE [heap |-> h, ref |-> ref]

\* The name qualified whether or not there is a parent name.
LeafCopy_AlwaysRenamed(h, ref, parentSchemaName) ==
    LET c == SpreadCopy(h, ref) IN
    [c EXCEPT !.heap[c.ref] =
         SetField(@, "name", QualifiedName(parentSchemaName, h[ref]))]

\* The name qualified only when defined, "" included.
LeafCopy_RenamedWhenDefined(h, ref, parentSchemaName) ==
    LET c == SpreadCopy(h, ref) IN
    IF parentSchemaName # Undefined
    THEN [c EXCEPT !.heap[c.ref] =
              SetField(@, "name", QualifiedName(parentSchemaName, h[ref]))]
    ELSE c

\* The else branch: the copy, renamed when there is a parent name.
LeafCopy(h, ref, parentSchemaName) ==
    LET c == SpreadCopy(h, ref) IN
    IF Truthy(parentSchemaName)
    THEN [c EXCEPT !.heap[c.ref] =
              SetField(@, "name", QualifiedName(parentSchemaName, h[ref]))]
    ELSE c

\* The elements put in front of the array instead of behind it.
PushAll_Front(tempSchemas, items) == items \o tempSchemas

\* Only the first element of the returned array is kept.
PushAll_First(tempSchemas, items) ==
    IF items = <<>> THEN tempSchemas ELSE Append(tempSchemas, Head(items))

\* tempSchemas.push(...items)
PushAll(tempSchemas, items) == tempSchemas \o items

\* For an empty array, an array holding one null entry (the reference 0).
ReturnValue_PlaceholderWhenEmpty(tempSchemas) ==
    IF tempSchemas = <<>> THEN <<0>> ELSE tempSchemas

\* return tempSchemas
ReturnValue(tempSchemas) == tempSchemas

\* The accumulator kept from call to call instead of made anew: it starts
\* with what the calls from outside have collected so far.
NewFrame_StaticAccumulator(schemas, parentSchemaName) ==
    LET kept[d \in 0..MaxCalls] ==
            IF d = 0 THEN <<>>
            ELSE kept[d - 1] \o result[d]
                 \o (IF stack[d] = <<>> THEN <<>> ELSE stack[d][1].tempSchemas)
    IN  [schemas |-> schemas, parentSchemaName |-> parentSchemaName,
         idx |-> 1, tempSchemas |-> kept[MaxCalls]]

NewFrame(schemas, parentSchemaName) ==
    [schemas |-> schemas, parentSchemaName |-> parentSchemaName,
     idx |-> 1, tempSchemas |-> <<>>]

Top(c) == stack[c][Len(stack[c])]

SetTop(c, f) == [stack EXCEPT ![c][Len(stack[c])] = f]

\* The arrays an outside call may be given: the forest, or an earlier result.
Inputs(c) == {roots} \cup {result[d] : d \in {e \in Calls : e < c /\ status[e] = "done"}}

\* flattenSchemas(schemas, parentSchemaName) is entered from outside.
Start(c) ==
    /\ status[c] = "idle"
    /\ \E schemas \in Inputs(c) :
          /\ args' = [args EXCEPT ![c] =
                          [schemas |-> schemas, parentSchemaName |-> parentName]]
          /\ stack' = [stack EXCEPT ![c] = <<NewFrame(schemas, parentName)>>]
    /\ status' = [status EXCEPT ![c] = "running"]
    /\ before' = [before EXCEPT ![c] = heap]
    /\ UNCHANGED <<wizard, tenant, heap, roots, parentName, result, form>>

\* A call from outside made when every earlier call has returned: the
\* function is synchronous and its callers run on one thread.
Invoke(c) ==
    /\ \A d \in Calls : d < c => status[d] = "done"
    /\ Start(c)

\* One turn of forEach on a schema with sub attributes: the recursive call.
VisitGroup(c) ==
    /\ status[c] = "running"
    /\ Top(c).idx <= Len(Top(c).schemas)
    /\ LET schema == heap[Top(c).schemas[Top(c).idx]] IN
          /\ HasSubAttributes(schema)
          /\ stack' = [stack EXCEPT ![c] = Append(@,
                 NewFrame(ChildSchemas(Top(c).schemas, schema),
                          ChildParentName(Top(c).parentSchemaName, schema)))]
    /\ UNCHANGED <<wizard, tenant, heap, roots, parentName, status, args, before, result, form>>

\* One turn of forEach on a schema without sub attributes.
VisitLeaf(c) ==
    /\ status[c] = "running"
    /\ Top(c).idx <= Len(Top(c).schemas)
    /\ LET f == Top(c)
           ref == f.schemas[f.idx]
           made == LeafCopy(heap, ref, f.parentSchemaName)
       IN  /\ ~HasSubAttributes(heap[ref])
           /\ heap' = made.heap
           /\ stack' = SetTop(c, [f EXCEPT !.idx = @ + 1,
                                           !.tempSchemas = PushAll(@, <<made.ref>>)])
    /\ UNCHANGED <<wizard, tenant, roots, parentName, status, args, before, result, form>>

\* return tempSchemas, of a recursive call: the caller pushes the elements.
ReturnInner(c) ==
    /\ status[c] = "running"
    /\ Len(stack[c]) > 1
    /\ Top(c).idx > Len(Top(c).schemas)
    /\ LET n == Len(stack[c])
           caller == stack[c][n - 1]
       IN  stack' = [stack EXCEPT ![c] =
               Append(SubSeq(@, 1, n - 2),
                      [caller EXCEPT !.idx = @ + 1,
                                     !.tempSchemas = PushAll(@, Top(c).tempSchemas)])]
    /\ UNCHANGED <<wizard, tenant, heap, roots, parentName, status, args, before, result, form>>

\* return tempSchemas, of the outside call.
ReturnOuter(c) ==
    /\ status[c] = "running"
    /\ Len(stack[c]) = 1
    /\ Top(c).idx > Len(Top(c).schemas)
    /\ result' = [result EXCEPT ![c] = ReturnValue(Top(c).tempSchemas)]
    /\ status' = [status EXCEPT ![c] = "done"]
    /\ stack' = [stack EXCEPT ![c] = <<>>]
    /\ UNCHANGED <<wizard, tenant, heap, roots, parentName, args, before, form>>

-----------------------------------------------------------------------------
(* The input forests *)

RECURSIVE AncestorsOrSelf(_, _)
AncestorsOrSelf(par, i) == IF i = 0 THEN {} ELSE {i} \cup AncestorsOrSelf(par, par[i])

\* Nodes are numbered in pre-order: par[i] is the parent of i, 0 for a root.
IsForest(n, par) ==
    /\ \A i \in 1..n : par[i] < i
    /\ \A i \in 2..n : par[i] # 0 => par[i] \in AncestorsOrSelf(par, i - 1)

ChildrenOf(n, par, i) == SelectSeq([j \in 1..n |-> j], LAMBDA j : par[j] = i)

\* name is unique among siblings (not in the whole forest).
UniqueAmongSiblings(n, par, nm) ==
    \A i, j \in 1..n : i # j /\ par[i] = par[j] => nm[i] # nm[j]

\* Schema object i; its nested object is n + i.  emptyArrays: a schema
\* without children carries subAttributes: [] instead of no such field.
SchemaObject(n, par, nm, emptyArrays, i) ==
    LET base == [name |-> nm[i], displayOrder |-> i, meta |-> n + i]
        kids == ChildrenOf(n, par, i)
    IN  IF kids # <<>> \/ emptyArrays
        THEN SetField(base, "subAttributes", kids)
        ELSE base

ForestHeap(n, par, nm, emptyArrays) ==
    [id \in 1..(2 * n) |->
        IF id <= n THEN SchemaObject(n, par, nm, emptyArrays, id)
        ELSE [label |-> id - n]]

\* A submission of the form that handleFormSubmission has not been called
\* for: no configuration picked, no request, no alert, no callback.
NotSubmitted ==
    [pc |-> "idle",
     applicationConfigurations |-> FALSE, protocolConfigurations |-> FALSE,
     updateApplicationDetails |-> "none", updateAuthProtocolConfig |-> "none",
     callback |-> 0, onUpdate |-> 0, successAlerts |-> 0, errorAlerts |-> 0]

\* A call of updateTenantOwner that has not been made.
NotCalledTenant ==
    [pc |-> "idle", requests |-> <<>>, response |-> <<>>, thrown |-> <<>>,
     outcome |-> <<>>]

\* What resolveStepActions renders: whether the Previous button is there,
\* and the label of the primary button.
ResolveStepActions(w) ==
    [previous |-> w.currentWizardStep > 1,
     primary |-> IF w.currentWizardStep # w.totalStep THEN "next" ELSE "finish"]

\* The component renders anew after a change of its state.
Rendered(w) == [w EXCEPT !.actions = ResolveStepActions(w)]

\* The wizard after its first render, before any effect has run: the state
\* hooks hold their initial values; template.idp has the properties given.
MountedWizard(currentStep, properties) ==
    Rendered([currentWizardStep |-> currentStep, wizStep |-> 0, totalStep |-> 0,
              deps |-> Undefined,
              actions |-> [previous |-> FALSE, primary |-> "next"],
              idp |-> [name |-> Undefined, properties |-> properties],
              calls |-> <<>>, closeEvents |-> 0, closeWizard |-> 0])

\* No call has been made.
NoCalls ==
    /\ tenant = [k \in TenantCalls |-> NotCalledTenant]
    /\ form = [s \in Submissions |-> NotSubmitted]
    /\ status = [c \in Calls |-> "idle"]
    /\ args = [c \in Calls |-> [schemas |-> <<>>, parentSchemaName |-> Undefined]]
    /\ before = [c \in Calls |-> <<>>]
    /\ stack = [c \in Calls |-> <<>>]
    /\ result = [c \in Calls |-> <<>>]

\* A forest of at most maxNodes schema objects that all have a name.
NamedForest(maxNodes, arrayChoices) ==
    \E n \in 0..maxNodes :
       \E par \in [1..n -> 0..(maxNodes - 1)], nm \in [1..n -> Names],
          emptyArrays \in arrayChoices :
           /\ IsForest(n, par)
           /\ UniqueAmongSiblings(n, par, nm)
           /\ heap = ForestHeap(n, par, nm, emptyArrays)
           /\ roots = ChildrenOf(n, par, 0)

Init ==
    /\ NamedForest(MaxNodes, BOOLEAN)
    /\ parentName \in ParentNames
    /\ NoCalls
    /\ wizard = MountedWizard(1, <<>>)

Next ==
    \E c \in Calls :
        \/ Invoke(c)
        \/ VisitGroup(c)
        \/ VisitLeaf(c)
        \/ ReturnInner(c)
        \/ ReturnOuter(c)

Spec == Init /\ [][Next]_vars

\* Schema object i of a forest without validation: the name field is there
\* or not, and a schema without children has no subAttributes field or an
\* empty array.
EdgeObject(n, par, nm, emptyArray, i) ==
    LET base == [displayOrder |-> i, meta |-> n + i]
        named == IF nm[i] = Undefined THEN base
                 ELSE SetField(base, "name", nm[i][1])
        kids == ChildrenOf(n, par, i)
    IN  IF kids # <<>> \/ emptyArray[i]
        THEN SetField(named, "subAttributes", kids)
        ELSE named

EdgeHeap(n, par, nm, emptyArray) ==
    [id \in 1..(2 * n) |->
        IF id <= n THEN EdgeObject(n, par, nm, emptyArray, id)
        ELSE [label |-> id - n]]

\* Any forest of at most MaxEdgeNodes objects: the function checks nothing.
InitEdge ==
    /\ \E n \in 0..MaxEdgeNodes :
          \E par \in [1..n -> 0..(MaxEdgeNodes - 1)], nm \in [1..n -> EdgeNames],
             emptyArray \in [1..n -> BOOLEAN] :
              /\ IsForest(n, par)
              /\ heap = EdgeHeap(n, par, nm, emptyArray)
              /\ roots = ChildrenOf(n, par, 0)
    /\ parentName \in ParentNames
    /\ NoCalls
    /\ wizard = MountedWizard(1, <<>>)

SpecEdge == InitEdge /\ [][Next]_vars

\* Calls from independent call sites: a call is entered while others are
\* under way, and the steps of the calls interleave in any order.
InitConc ==
    /\ NamedForest(MaxConcNodes, {TRUE})
    /\ parentName \in ParentNames
    /\ NoCalls
    /\ wizard = MountedWizard(1, <<>>)

NextConc ==
    \E c \in Calls :
        \/ Start(c)
        \/ VisitGroup(c)
        \/ VisitLeaf(c)
        \/ ReturnInner(c)
        \/ ReturnOuter(c)

SpecConc == InitConc /\ [][NextConc]_vars

\* flattenSchemas as a function of the objects h, the array and the parent
\* name: the sequence of the records it returns.
RECURSIVE FlattenAlone(_, _, _)
FlattenAlone(h, schemas, parentSchemaName) ==
    IF schemas = <<>> THEN <<>>
    ELSE LET schema == h[Head(schemas)] IN
         (IF "subAttributes" \in DOMAIN schema /\ Len(schema.subAttributes) > 0
          THEN FlattenAlone(h, schema.subAttributes, Get(schema, "name"))
          ELSE IF Truthy(parentSchemaName)
               THEN <<SetField(schema, "name",
                         ToStr(parentSchemaName) \o "." \o ToStr(Get(schema, "name")))>>
               ELSE <<schema>>)
         \o FlattenAlone(h, Tail(schemas), parentSchemaName)

(* The application edit form *)

\* The outcome of a rejected request: error.response.data.description is
\* there or not.
Rejections == {"rejectedWithDescription", "rejected"}

\* updateProtocolConfigurations(): the request for the protocol update goes out.
UpdateProtocolConfigurations(f) ==
    [f EXCEPT !.updateAuthProtocolConfig = "pending", !.pc = "protocolPending"]

\* handleFormSubmission(values, callback) up to its return: the changed
\* configurations are picked and the first request, if any, goes out.
HandleFormSubmission(s) ==
    /\ form[s].pc = "idle"
    /\ \E protocolChanged, applicationChanged \in BOOLEAN :
          LET f == [form[s] EXCEPT
                       !.protocolConfigurations = protocolChanged,
                       !.applicationConfigurations = applicationChanged]
          IN  form' = [form EXCEPT ![s] =
                  IF f.applicationConfigurations
                  THEN [f EXCEPT !.updateApplicationDetails = "pending",
                                 !.pc = "applicationPending"]
                  ELSE IF f.protocolConfigurations
                       THEN UpdateProtocolConfigurations(f)
                       ELSE [f EXCEPT !.pc = "returned"]]
    /\ UNCHANGED <<wizard, tenant, heap, roots, parentName, status, args, before, stack, result>>

\* A then handler that reports the success of the details update before it
\* looks at the protocol configurations.
ApplicationDetailsThen_AlwaysAlerts(s) ==
    /\ form[s].pc = "applicationPending"
    /\ LET f == [form[s] EXCEPT !.updateApplicationDetails = "resolved",
                                !.onUpdate = @ + 1,
                                !.successAlerts = @ + 1]
       IN  form' = [form EXCEPT ![s] =
               IF f.protocolConfigurations
               THEN UpdateProtocolConfigurations(f)
               ELSE [f EXCEPT !.callback = @ + 1, !.pc = "returned"]]
    /\ UNCHANGED <<wizard, tenant, heap, roots, parentName, status, args, before, stack, result>>

\* updateApplicationDetails(...).then(...)
ApplicationDetailsThen(s) ==
    /\ form[s].pc = "applicationPending"
    /\ LET f == [form[s] EXCEPT !.updateApplicationDetails = "resolved",
                                !.onUpdate = @ + 1]
       IN  form' = [form EXCEPT ![s] =
               IF f.protocolConfigurations
               THEN UpdateProtocolConfigurations(f)
               ELSE [f EXCEPT !.successAlerts = @ + 1,
                              !.callback = @ + 1,
                              !.pc = "returned"]]
    /\ UNCHANGED <<wizard, tenant, heap, roots, parentName, status, args, before, stack, result>>

\* A catch handler that goes on with the protocol update after the error.
ApplicationDetailsCatch_StillUpdatesProtocol(s) ==
    /\ form[s].pc = "applicationPending"
    /\ \E error \in Rejections :
          LET f == [form[s] EXCEPT !.updateApplicationDetails = error,
                                   !.errorAlerts = @ + 1]
          IN  form' = [form EXCEPT ![s] =
                  IF f.protocolConfigurations
                  THEN UpdateProtocolConfigurations(f)
                  ELSE [f EXCEPT !.callback = @ + 1, !.pc = "returned"]]
    /\ UNCHANGED <<wizard, tenant, heap, roots, parentName, status, args, before, stack, result>>

\* updateApplicationDetails(...).catch(...)
ApplicationDetailsCatch(s) ==
    /\ form[s].pc = "applicationPending"
    /\ \E error \in Rejections :
          LET f == [form[s] EXCEPT !.updateApplicationDetails = error,
                                   !.errorAlerts = @ + 1,
                                   !.pc = "returned"]
          IN  form' = [form EXCEPT ![s] =
                  IF error = "rejectedWithDescription"
                  THEN f
                  ELSE [f EXCEPT !.callback = @ + 1]]
    /\ UNCHANGED <<wizard, tenant, heap, roots, parentName, status, args, before, stack, result>>

\* updateAuthProtocolConfig(...).then(...)
ProtocolConfigThen(s) ==
    /\ form[s].pc = "protocolPending"
    /\ form' = [form EXCEPT ![s].updateAuthProtocolConfig = "resolved",
                            ![s].successAlerts = @ + 1,
                            ![s].pc = "protocolFinally"]
    /\ UNCHANGED <<wizard, tenant, heap, roots, parentName, status, args, before, stack, result>>

\* updateAuthProtocolConfig(...).catch(...)
ProtocolConfigCatch(s) ==
    /\ form[s].pc = "protocolPending"
    /\ \E error \in Rejections :
          form' = [form EXCEPT ![s].updateAuthProtocolConfig = error,
                               ![s].errorAlerts = @ + 1,
                               ![s].pc = "protocolFinally"]
    /\ UNCHANGED <<wizard, tenant, heap, roots, parentName, status, args, before, stack, result>>

\* .finally(() => callback())
ProtocolConfigFinally(s) ==
    /\ form[s].pc = "protocolFinally"
    /\ form' = [form EXCEPT ![s].callback = @ + 1, ![s].pc = "returned"]
    /\ UNCHANGED <<wizard, tenant, heap, roots, parentName, status, args, before, stack, result>>

\* The form before any submission; flattenSchemas has no part in it.
InitForm ==
    /\ heap = <<>>
    /\ roots = <<>>
    /\ parentName = Undefined
    /\ NoCalls
    /\ wizard = MountedWizard(1, <<>>)

NextForm ==
    \E s \in Submissions :
        \/ HandleFormSubmission(s)
        \/ ApplicationDetailsThen(s)
        \/ ApplicationDetailsCatch(s)
        \/ ProtocolConfigThen(s)
        \/ ProtocolConfigCatch(s)
        \/ ProtocolConfigFinally(s)

SpecForm == InitForm /\ [][NextForm]_vars

(* updateTenantOwner *)

TENANT_OWNER_UPDATE_INVALID_STATUS_ERROR == "TENANT_OWNER_UPDATE_INVALID_STATUS_ERROR"

TENANT_OWNER_UPDATE_ERROR == "TENANT_OWNER_UPDATE_ERROR"

\* The arguments of the calls: tenant ids, and owner details as id and rest.
TenantIds == {"t1"}

OwnerDetails == {[id |-> "o1", rest |-> "r1"], [id |-> "o2", rest |-> "r1"]}

\* The responses the HTTP client resolves its promise with.
Responses == {[status |-> st, data |-> "d"] : st \in {StatusOK, 201, 204}}

\* The errors the HTTP client rejects its promise with: no response at all
\* (error.response undefined), or a response with an error status.
TransportErrors ==
    {[name |-> "AxiosError", message |-> "Network Error",
      code |-> "ERR_NETWORK", response |-> Undefined],
     [name |-> "AxiosError", message |-> "Request failed",
      code |-> "ERR_BAD_RESPONSE", response |-> Some([status |-> 500, data |-> "e"])]}

\* new IdentityAppsApiException(message, stack, code, request, response, config)
IdentityAppsApiException(message, code, response) ==
    [name |-> "IdentityAppsApiException", message |-> message,
     code |-> code, response |-> response]

\* updateTenantOwner(tenantId, ownerDetails) up to its return: the request
\* configuration is built and handed to the HTTP client.
UpdateTenantOwner(k) ==
    /\ tenant[k].pc = "idle"
    /\ \E tenantId \in TenantIds, ownerDetails \in OwnerDetails :
          LET requestConfig ==
                  [data |-> ownerDetails.rest,
                   method |-> "PUT",
                   url |-> "tenants/" \o tenantId \o "/owners/" \o ownerDetails.id]
          IN  tenant' = [tenant EXCEPT ![k].requests = Append(@, requestConfig),
                                       ![k].pc = "pending"]
    /\ UNCHANGED <<wizard, heap, roots, parentName, status, args, before, stack, result, form>>

\* A then handler that takes every response for a success.
TenantOwnerThen_AnyStatus(k) ==
    /\ tenant[k].pc = "pending"
    /\ \E response \in Responses :
          tenant' = [tenant EXCEPT
              ![k].response = Some(response),
              ![k].outcome = Some([state |-> "resolved", value |-> response.data]),
              ![k].pc = "settled"]
    /\ UNCHANGED <<wizard, heap, roots, parentName, status, args, before, stack, result, form>>

\* httpClient(requestConfig).then(...): the client has resolved with a
\* response.  A value returned passes the catch handler by.
TenantOwnerThen(k) ==
    /\ tenant[k].pc = "pending"
    /\ \E response \in Responses :
          tenant' = [tenant EXCEPT ![k] =
              IF response.status # StatusOK
              THEN [@ EXCEPT
                      !.response = Some(response),
                      !.thrown = Some(IdentityAppsApiException(
                                     TENANT_OWNER_UPDATE_INVALID_STATUS_ERROR,
                                     response.status, Some(response))),
                      !.pc = "thrown"]
              ELSE [@ EXCEPT
                      !.response = Some(response),
                      !.outcome = Some([state |-> "resolved", value |-> response.data]),
                      !.pc = "settled"]]
    /\ UNCHANGED <<wizard, heap, roots, parentName, status, args, before, stack, result, form>>

\* The client has rejected: the then handler is passed by.
TenantOwnerRequestFails(k) ==
    /\ tenant[k].pc = "pending"
    /\ \E error \in TransportErrors :
          tenant' = [tenant EXCEPT ![k].thrown = Some(error), ![k].pc = "thrown"]
    /\ UNCHANGED <<wizard, heap, roots, parentName, status, args, before, stack, result, form>>

\* .catch(...): whatever was thrown before it, by the client or by the then
\* handler, is wrapped into a new exception.
TenantOwnerCatch(k) ==
    /\ tenant[k].pc = "thrown"
    /\ LET error == tenant[k].thrown[1] IN
       tenant' = [tenant EXCEPT
           ![k].outcome = Some([state |-> "rejected", value |->
               IdentityAppsApiException(TENANT_OWNER_UPDATE_ERROR,
                                        error.code, error.response)]),
           ![k].pc = "settled"]
    /\ UNCHANGED <<wizard, heap, roots, parentName, status, args, before, stack, result, form>>

NextTenant ==
    \E k \in TenantCalls :
        \/ UpdateTenantOwner(k)
        \/ TenantOwnerThen(k)
        \/ TenantOwnerRequestFails(k)
        \/ TenantOwnerCatch(k)

\* InitForm: nothing has been called.
SpecTenant == InitForm /\ [][NextTenant]_vars

(* The OIDC provider create wizard: its steps *)

\* changePageNumber(step): the form reports the page it shows.
ChangePageNumber(step) ==
    /\ wizard' = Rendered([wizard EXCEPT !.wizStep = step])
    /\ UNCHANGED <<heap, roots, parentName, status, args, before, stack, result,
                   form, tenant>>

\* setTotalPage(pageNumber): the form reports how many pages it has.
SetTotalPage(pageNumber) ==
    /\ wizard' = Rendered([wizard EXCEPT !.totalStep = pageNumber])
    /\ UNCHANGED <<heap, roots, parentName, status, args, before, stack, result,
                   form, tenant>>

\* The effect has yet to run: after mount, and after a render in which
\* wizStep differs from what it was when the effect ran last.
EffectPending(w) == w.deps # Some(w.wizStep)

\* An effect that takes wizStep for the step itself.
TrackWizardStep_NoOffset(w) ==
    Rendered([w EXCEPT !.currentWizardStep = w.wizStep, !.deps = Some(w.wizStep)])

\* useEffect(() => setCurrentWizardStep(wizStep + 1), [ wizStep ])
TrackWizardStep(w) ==
    Rendered([w EXCEPT !.currentWizardStep = w.wizStep + 1,
                       !.deps = Some(w.wizStep)])

StepEffect ==
    /\ EffectPending(wizard)
    /\ wizard' = TrackWizardStep(wizard)
    /\ UNCHANGED <<heap, roots, parentName, status, args, before, stack, result,
                   form, tenant>>

\* The wizard is mounted with any currentStep prop.
InitSteps ==
    /\ heap = <<>>
    /\ roots = <<>>
    /\ parentName = Undefined
    /\ NoCalls
    /\ \E currentStep \in 0..MaxPages : wizard = MountedWizard(currentStep, <<>>)

NextSteps ==
    \/ \E step \in 0..(MaxPages - 1) : ChangePageNumber(step)
    \/ \E pageNumber \in 0..MaxPages : SetTotalPage(pageNumber)
    \/ StepEffect

SpecSteps == InitSteps /\ [][NextSteps]_vars

(* The OIDC provider create wizard: its submissions *)

\* Strings whose characters matter are sequences of characters.
Strings(alphabet, maxLen) == UNION {[1..n -> alphabet] : n \in 0..maxLen}

\* response.headers.location: not there, or a string.
LocationHeaders == {Undefined} \cup {Some(l) : l \in Strings({"/", "x"}, MaxLocationLen)}

\* The values the form submits: each field is a string or is missing.
WizardValues ==
    {[name |-> Some("n1"), clientId |-> Some("c1"), clientSecret |-> Some("s1"),
      authorizationEndpointUrl |-> Some("a1"), tokenEndpointUrl |-> Some("t1")],
     [name |-> Some("n2"), clientId |-> Some("c2"), clientSecret |-> Some("s2"),
      authorizationEndpointUrl |-> Some("a2"), tokenEndpointUrl |-> Some("t2")],
     [name |-> Some("n1"), clientId |-> Undefined, clientSecret |-> Some("s1"),
      authorizationEndpointUrl |-> Undefined, tokenEndpointUrl |-> Some("t1")]}

\* The properties template.idp may come with.
TemplateProperties == {<<>>, <<[key |-> "ClientId", value |-> Some("c0")]>>}

\* str.indexOf(ch): the index of the first ch, from 0; -1 without one.
IndexOf(str, ch) ==
    LET at == {i \in 1..Len(str) : str[i] = ch}
    IN  IF at = {} THEN -1 ELSE (CHOOSE i \in at : \A j \in at : i <= j) - 1

\* str.lastIndexOf(ch): the index of the last ch, from 0; -1 without one.
LastIndexOf(str, ch) ==
    LET at == {i \in 1..Len(str) : str[i] = ch}
    IN  IF at = {} THEN -1 ELSE (CHOOSE i \in at : \A j \in at : i >= j) - 1

\* str.substring(start): the characters from index start, counted from 0.
Substring(str, start) == SubSeq(str, start + 1, Len(str))

\* isEmpty(value) of lodash, for undefined and for strings.
IsEmpty(opt) == opt = Undefined \/ opt[1] = <<>>

\* values?.field?.toString() of a string or a missing field.
ToStringOpt(opt) == opt

\* Properties that are pushed onto those the shared object has.
AuthenticatorProperties_Pushed(idp, values) ==
    idp.properties \o
    <<[key |-> "ClientId", value |-> ToStringOpt(values.clientId)],
      [key |-> "ClientSecret", value |-> ToStringOpt(values.clientSecret)],
      [key |-> "OAuth2AuthzEPUrl", value |-> ToStringOpt(values.authorizationEndpointUrl)],
      [key |-> "OAuth2TokenEPUrl", value |-> ToStringOpt(values.tokenEndpointUrl)],
      [key |-> "callbackUrl", value |-> Some("host" \o "/commonauth")]>>

\* The array assigned to authenticators[ 0 ].properties.
AuthenticatorProperties(idp, values) ==
    <<[key |-> "ClientId", value |-> ToStringOpt(values.clientId)],
      [key |-> "ClientSecret", value |-> ToStringOpt(values.clientSecret)],
      [key |-> "OAuth2AuthzEPUrl", value |-> ToStringOpt(values.authorizationEndpointUrl)],
      [key |-> "OAuth2TokenEPUrl", value |-> ToStringOpt(values.tokenEndpointUrl)],
      [key |-> "callbackUrl", value |-> Some("host" \o "/commonauth")]>>

\* identityProvider.image, set when the client origin is not empty.
WithImage(idp, clientOrigin, appBasename) ==
    IF clientOrigin = "" THEN idp
    ELSE IF appBasename # ""
         THEN SetField(idp, "image", clientOrigin \o "/" \o appBasename \o "/enterprise-idp-illustration.svg")
         ELSE SetField(idp, "image", clientOrigin \o "/enterprise-idp-illustration.svg")

\* The wizard is on the screen: closeWizard has not been called.
WizardOpen == wizard.closeWizard = 0

\* onSubmitWizard(values): template.idp is changed in place and handed, by
\* handleWizardFormFinish and createNewIdentityProvider, to
\* createIdentityProvider.
OnSubmitWizard(values, clientOrigin, appBasename) ==
    /\ WizardOpen
    /\ Len(wizard.calls) < MaxWizardCalls
    /\ LET identityProvider ==
              WithImage([wizard.idp EXCEPT
                            !.name = ToStringOpt(values.name),
                            !.properties = AuthenticatorProperties(wizard.idp, values)],
                        clientOrigin, appBasename)
       IN  wizard' = [wizard EXCEPT
               !.idp = identityProvider,
               !.calls = Append(@, [values |-> values,
                                    identityProvider |-> identityProvider,
                                    state |-> "pending",
                                    location |-> Undefined,
                                    successAlerts |-> 0,
                                    errorAlerts |-> 0,
                                    navigations |-> <<>>])]
    /\ UNCHANGED <<heap, roots, parentName, status, args, before, stack, result,
                   form, tenant>>

\* An id cut at the first '/' of the location.
CreatedIdpID_AfterFirstSlash(location) ==
    Substring(location, IndexOf(location, "/") + 1)

\* location.substring(location.lastIndexOf("/") + 1)
CreatedIdpID(location) == Substring(location, LastIndexOf(location, "/") + 1)

\* createIdentityProvider(identityProvider).then(...)
CreateIdentityProviderThen(i, location) ==
    /\ i \in DOMAIN wizard.calls
    /\ wizard.calls[i].state = "pending"
    /\ wizard' = [wizard EXCEPT
           !.calls[i].state = "resolved",
           !.calls[i].location = location,
           !.calls[i].successAlerts = @ + 1,
           !.calls[i].navigations = Append(@,
               IF ~IsEmpty(location)
               THEN [pathname |-> "IDP_EDIT", id |-> Some(CreatedIdpID(location[1]))]
               ELSE [pathname |-> "IDP", id |-> Undefined])]
    /\ UNCHANGED <<heap, roots, parentName, status, args, before, stack, result,
                   form, tenant>>

\* createIdentityProvider(identityProvider).catch(...): setAlert is called
\* once, with the description of the error or without.
CreateIdentityProviderCatch(i) ==
    /\ i \in DOMAIN wizard.calls
    /\ wizard.calls[i].state = "pending"
    /\ \E error \in Rejections :
          wizard' = [wizard EXCEPT !.calls[i].state = error,
                                   !.calls[i].errorAlerts = @ + 1]
    /\ UNCHANGED <<heap, roots, parentName, status, args, before, stack, result,
                   form, tenant>>

\* handleWizardClose(): the user closes the wizard.
HandleWizardClose ==
    /\ WizardOpen
    /\ wizard' = [wizard EXCEPT !.closeEvents = @ + 1, !.closeWizard = @ + 1]
    /\ UNCHANGED <<heap, roots, parentName, status, args, before, stack, result,
                   form, tenant>>

\* The wizard is mounted; nothing else has been called.
InitWizard ==
    /\ heap = <<>>
    /\ roots = <<>>
    /\ parentName = Undefined
    /\ NoCalls
    /\ \E properties \in TemplateProperties : wizard = MountedWizard(1, properties)

\* Creation: every location header, one choice of values.
NextCreate ==
    \/ \E values \in {v \in WizardValues : v.clientId = Some("c1")} :
           OnSubmitWizard(values, "", "")
    \/ \E i \in 1..MaxWizardCalls, location \in LocationHeaders :
           CreateIdentityProviderThen(i, location)
    \/ \E i \in 1..MaxWizardCalls : CreateIdentityProviderCatch(i)
    \/ HandleWizardClose

SpecCreate == InitWizard /\ [][NextCreate]_vars

\* Submission: every choice of values and of the place the client is served
\* from, two location headers.
NextSubmit ==
    \/ \E values \in WizardValues, clientOrigin \in {"", "o"}, appBasename \in {"", "b"} :
           OnSubmitWizard(values, clientOrigin, appBasename)
    \/ \E i \in 1..MaxWizardCalls, location \in {Undefined, Some(<<"/", "x">>)} :
           CreateIdentityProviderThen(i, location)
    \/ \E i \in 1..MaxWizardCalls : CreateIdentityProviderCatch(i)
    \/ HandleWizardClose

SpecSubmit == InitWizard /\ [][NextSubmit]_vars

\* The calls run to their end: a call that can take a step takes one.
SpecFair == Spec /\ WF_vars(Next)

-----------------------------------------------------------------------------
(* What the properties are stated in: the input of a call, read from the   *)
(* heap as it was when the call was made, and its output.                  *)

Done(c) == status[c] = "done"

NoParentName(c) == args[c].parentSchemaName = Undefined

\* A node with no sub attributes: the field is absent or an empty array.
IsLeafNode(o) == "subAttributes" \notin DOMAIN o \/ o.subAttributes = <<>>

\* The leaves below the nodes s, in pre-order, each with the reference of
\* its immediate parent group (0 for a member of s) and the references of
\* all its ancestor groups, root first.
RECURSIVE LeafInfo(_, _, _, _)
LeafInfo(h, s, parent, path) ==
    IF s = <<>> THEN <<>>
    ELSE LET ref == Head(s) IN
         (IF IsLeafNode(h[ref])
          THEN <<[leaf |-> ref, parent |-> parent, path |-> path]>>
          ELSE LeafInfo(h, h[ref].subAttributes, ref, Append(path, ref)))
         \o LeafInfo(h, Tail(s), parent, path)

InputLeaves(c) == LeafInfo(before[c], args[c].schemas, 0, <<>>)

\* The number of nodes without sub attributes, counted over the whole forest.
RECURSIVE CountLeaves(_, _)
CountLeaves(h, s) ==
    IF s = <<>> THEN 0
    ELSE (IF IsLeafNode(h[Head(s)]) THEN 1
          ELSE CountLeaves(h, h[Head(s)].subAttributes))
         + CountLeaves(h, Tail(s))

\* The strings joined by '.'.
RECURSIVE JoinDot(_)
JoinDot(strs) ==
    IF Len(strs) = 1 THEN strs[1] ELSE strs[1] \o "." \o JoinDot(Tail(strs))

\* The names of the objects refs, as they were in heap h.
NamesOf(h, refs) == [k \in DOMAIN refs |-> h[refs[k]].name]

\* The k-th entry of the output of call c.
Out(c, k) == heap[result[c][k]]

\* Output entry k of call c is the copy of the input object ref: displayOrder
\* differs from one input object to the next and is opaque to flattenSchemas.
CopyOf(c, k, ref) == Out(c, k).displayOrder = before[c][ref].displayOrder

\* The input of call c has a leaf under a group under a root group.
HasDepthThree(c) ==
    LET leaves == InputLeaves(c) IN
    \E k \in DOMAIN leaves : Len(leaves[k].path) >= 2

\* Every root of the input of call c is a leaf or a group of leaves.
DepthAtMostTwo(c) ==
    LET leaves == InputLeaves(c) IN
    \A k \in DOMAIN leaves : Len(leaves[k].path) <= 1

\* No node of the argument of call c has sub attributes.
FlatInput(c) ==
    \A i \in DOMAIN args[c].schemas : IsLeafNode(before[c][args[c].schemas[i]])

\* The references a call has put in an output array so far.
Produced(c) ==
    {result[c][k] : k \in DOMAIN result[c]}
    \cup UNION {{stack[c][j].tempSchemas[k] : k \in DOMAIN stack[c][j].tempSchemas} :
                   j \in DOMAIN stack[c]}

-----------------------------------------------------------------------------
(* The properties *)

\* C1: called without a parent name, every leaf is output under the names
\* of all its ancestor groups, root first, and its own, joined by '.'.
C1_AllAncestorsInName ==
    \A c \in Calls : Done(c) /\ NoParentName(c) =>
        LET leaves == InputLeaves(c) IN
        /\ Len(result[c]) = Len(leaves)
        /\ \A k \in DOMAIN leaves :
              Out(c, k).name =
                  JoinDot(NamesOf(before[c], Append(leaves[k].path, leaves[k].leaf)))

\* C2: on a forest of root leaves and root groups of leaves, called without
\* a parent name, a root leaf n is output as n and a leaf n of a root group
\* g as g.n, in the order of the input.
C2_ShallowForestNames ==
    \A c \in Calls : Done(c) /\ NoParentName(c) /\ DepthAtMostTwo(c) =>
        LET leaves == InputLeaves(c) IN
        /\ Len(result[c]) = Len(leaves)
        /\ \A k \in DOMAIN leaves :
              LET n == before[c][leaves[k].leaf].name IN
              /\ CopyOf(c, k, leaves[k].leaf)
              /\ Out(c, k).name =
                     IF leaves[k].parent = 0 THEN n
                     ELSE before[c][leaves[k].parent].name \o "." \o n

\* A call on a forest with a root leaf a and then a root group b of the leaf
\* a has returned.
C2_Witness ==
    \E c \in Calls :
        /\ Done(c) /\ NoParentName(c) /\ DepthAtMostTwo(c)
        /\ LET leaves == InputLeaves(c) IN
           \E j, k \in DOMAIN leaves :
              /\ j < k
              /\ leaves[j].parent = 0
              /\ leaves[k].parent # 0
              /\ Out(c, j).name = "a"
              /\ Out(c, k).name = "b.a"

\* C3: every leaf of the input forest has exactly one output entry and every
\* output entry exactly one leaf, so the output is as long as the forest has
\* leaves.
C3_OneEntryPerLeaf ==
    \A c \in Calls : Done(c) =>
        LET leaves == InputLeaves(c) IN
        /\ Len(result[c]) = CountLeaves(before[c], args[c].schemas)
        /\ \A j \in DOMAIN leaves :
              Cardinality({k \in DOMAIN result[c] : CopyOf(c, k, leaves[j].leaf)}) = 1
        /\ \A k \in DOMAIN result[c] :
              Cardinality({j \in DOMAIN leaves : CopyOf(c, k, leaves[j].leaf)}) = 1

\* A call on a forest with a group below a group and two leaves has returned.
C3_Witness ==
    \E c \in Calls :
        /\ Done(c)
        /\ HasDepthThree(c)
        /\ CountLeaves(before[c], args[c].schemas) = 2
        /\ Len(result[c]) = 2

\* C4: the output entries are the leaves of the input forest in pre-order,
\* depth first, siblings left to right.
C4_PreOrder ==
    \A c \in Calls : Done(c) =>
        LET leaves == InputLeaves(c) IN
        /\ Len(result[c]) = Len(leaves)
        /\ \A k \in DOMAIN leaves : CopyOf(c, k, leaves[k].leaf)

\* A call has returned a group's two leaves followed by a root leaf.
C4_Witness ==
    \E c \in Calls :
        /\ Done(c)
        /\ Len(result[c]) >= 3
        /\ LET leaves == InputLeaves(c) IN
           /\ leaves[1].parent # 0
           /\ leaves[2].parent = leaves[1].parent
           /\ leaves[3].parent = 0

\* C5: no object that existed when a call was made has other fields or
\* other values while the call runs or after it.
C5_InputNotMutated ==
    \A c \in Calls : status[c] # "idle" =>
        \A id \in DOMAIN before[c] : heap[id] = before[c][id]

\* A call on the forest with a parent name has returned a leaf under a name
\* that is not the name of the leaf.
C5_Witness ==
    \E c \in Calls :
        /\ Done(c)
        /\ args[c].parentSchemaName = Some("p")
        /\ args[c].schemas = roots
        /\ LET leaves == InputLeaves(c) IN
           \E k \in DOMAIN result[c] :
              Out(c, k).name # before[c][leaves[k].leaf].name

\* C6: an output entry is never an object that existed when the call was
\* made, no object is output twice, and two calls share no output object.
C6_OutputObjectsFresh ==
    /\ \A c \in Calls : status[c] # "idle" =>
          /\ Produced(c) \cap DOMAIN before[c] = {}
          /\ Cardinality({result[c][k] : k \in DOMAIN result[c]}) = Len(result[c])
    /\ \A c, d \in Calls : c # d => Produced(c) \cap Produced(d) = {}

\* Two calls on the same forest, both without a parent name, have returned
\* a top-level leaf.
C6_Witness ==
    /\ Done(1) /\ Done(2)
    /\ args[1].schemas = roots /\ args[2].schemas = roots
    /\ NoParentName(1) /\ NoParentName(2)
    /\ LET leaves == InputLeaves(2) IN
       \E k \in DOMAIN result[2] : leaves[k].parent = 0

\* C7: an output record has the fields of its input leaf, no more and no
\* fewer, each but name with the value it has in the leaf; the nested object
\* is the same object, itself unchanged.
C7_OtherFieldsCopied ==
    \A c \in Calls : Done(c) =>
        LET leaves == InputLeaves(c) IN
        /\ Len(result[c]) = Len(leaves)
        /\ \A k \in DOMAIN leaves :
              LET in == before[c][leaves[k].leaf]
                  out == Out(c, k)
              IN  /\ DOMAIN out = DOMAIN in
                  /\ \A f \in DOMAIN in \ {"name"} : out[f] = in[f]
                  /\ heap[out.meta] = before[c][in.meta]

\* A leaf that carries an empty subAttributes array has been returned under
\* another name.
C7_Witness ==
    \E c \in Calls :
        /\ Done(c)
        /\ LET leaves == InputLeaves(c) IN
           \E k \in DOMAIN result[c] :
              /\ "subAttributes" \in DOMAIN Out(c, k)
              /\ Out(c, k).name # before[c][leaves[k].leaf].name

\* C8, as claimed: with a parent name p given, every leaf n that sits in the
\* argument array is output as p.n; without one, as n.
C8_GivenParentQualifies ==
    \A c \in Calls : Done(c) =>
        LET leaves == InputLeaves(c)
            p == args[c].parentSchemaName
        IN
        /\ Len(result[c]) = Len(leaves)
        /\ \A k \in DOMAIN leaves :
              LET n == before[c][leaves[k].leaf].name IN
              leaves[k].parent = 0 =>
                  Out(c, k).name = IF p # Undefined THEN p[1] \o "." \o n ELSE n

\* C8, amended: with a parent name p given that is not the empty string,
\* every leaf n that sits in the argument array is output as p.n; without
\* one, or with the empty string, as n.
C8_NonEmptyParentQualifies ==
    \A c \in Calls : Done(c) =>
        LET leaves == InputLeaves(c)
            p == args[c].parentSchemaName
        IN
        /\ Len(result[c]) = Len(leaves)
        /\ \A k \in DOMAIN leaves :
              LET n == before[c][leaves[k].leaf].name IN
              leaves[k].parent = 0 =>
                  Out(c, k).name =
                      IF p # Undefined /\ p[1] # "" THEN p[1] \o "." \o n ELSE n

\* A call with parent name p has returned the leaf a of its argument as p.a.
C8_Witness ==
    \E c \in Calls :
        /\ Done(c)
        /\ args[c].parentSchemaName = Some("p")
        /\ LET leaves == InputLeaves(c) IN
           \E k \in DOMAIN result[c] :
              /\ leaves[k].parent = 0
              /\ before[c][leaves[k].leaf].name = "a"
              /\ Out(c, k).name = "p.a"

\* C9: the recursive call on a group g is given g's name alone as parent
\* name, whatever parent name its caller has, and a leaf n that is a child
\* of g is output as g.n.
C9_OnlyGroupNameHandedDown ==
    \A c \in Calls :
        /\ \A j \in 2..Len(stack[c]) :
              LET caller == stack[c][j - 1]
                  g == heap[caller.schemas[caller.idx]]
              IN  stack[c][j].parentSchemaName = Some(g.name)
        /\ Done(c) =>
              LET leaves == InputLeaves(c) IN
              /\ Len(result[c]) = Len(leaves)
              /\ \A k \in DOMAIN leaves :
                    leaves[k].parent # 0 =>
                        Out(c, k).name = before[c][leaves[k].parent].name \o "."
                                             \o before[c][leaves[k].leaf].name

\* A call with parent name p has returned, as b.a, the leaf a of a group b
\* that itself lies in a group.
C9_Witness ==
    \E c \in Calls :
        /\ Done(c)
        /\ args[c].parentSchemaName = Some("p")
        /\ LET leaves == InputLeaves(c) IN
           \E k \in DOMAIN result[c] :
              /\ Len(leaves[k].path) = 2
              /\ Out(c, k).name = "b.a"

\* C10: without a parent name, a forest in which no node has sub attributes
\* comes back with the same length and, entry by entry, the same name and
\* fields; so flattening the output of a call gives that output again.
C10_FlatInputComesBack ==
    \A c \in Calls : Done(c) /\ NoParentName(c) =>
        /\ FlatInput(c) =>
              /\ Len(result[c]) = Len(args[c].schemas)
              /\ \A i \in DOMAIN result[c] : Out(c, i) = before[c][args[c].schemas[i]]
        /\ \A d \in Calls : d < c /\ args[c].schemas = result[d] =>
              [k \in DOMAIN result[c] |-> Out(c, k)] = [k \in DOMAIN result[d] |-> Out(d, k)]

\* The output of a call on a forest with a group, two entries or more, has
\* been flattened again.
C10_Witness ==
    /\ Done(1) /\ Done(2)
    /\ NoParentName(1) /\ NoParentName(2)
    /\ ~FlatInput(1)
    /\ args[2].schemas = result[1]
    /\ Len(result[2]) >= 2

\* No two nodes of the array s, or of one subAttributes array below it, have
\* the same name.
RECURSIVE SiblingNamesUnique(_, _)
SiblingNamesUnique(h, s) ==
    /\ \A i, j \in DOMAIN s : i # j => h[s[i]].name # h[s[j]].name
    /\ \A i \in DOMAIN s :
          IsLeafNode(h[s[i]]) \/ SiblingNamesUnique(h, h[s[i]].subAttributes)

\* C11: in a forest whose sibling names are unique, leaves of the same own
\* name in different subtrees all have their output entry, and the names of
\* these entries differ.
C11_SameNameLeavesKeptApart ==
    \A c \in Calls :
        Done(c) /\ SiblingNamesUnique(before[c], args[c].schemas) =>
            LET leaves == InputLeaves(c) IN
            /\ Len(result[c]) = Len(leaves)
            /\ \A j, k \in DOMAIN leaves :
                  /\ j # k
                  /\ before[c][leaves[j].leaf].name = before[c][leaves[k].leaf].name
                  => Out(c, j).name # Out(c, k).name

\* C12: every entry of an output array is a leaf: it has no sub attribute.
C12_OutputsAreLeaves ==
    \A c \in Calls : \A ref \in Produced(c) :
        "subAttributes" \in DOMAIN heap[ref] => heap[ref].subAttributes = <<>>

\* A call with a parent name on a forest with a group has returned an entry
\* that carries an empty subAttributes array.
C12_Witness ==
    \E c \in Calls :
        /\ Done(c)
        /\ args[c].parentSchemaName = Some("p")
        /\ ~FlatInput(c)
        /\ \E k \in DOMAIN result[c] : "subAttributes" \in DOMAIN Out(c, k)

\* C13: on an empty array the call returns an empty array, with a parent
\* name and without.
C13_EmptyInEmptyOut ==
    \A c \in Calls : Done(c) /\ args[c].schemas = <<>> => result[c] = <<>>

\* Calls on an empty array with a parent name have returned.
C13_Witness ==
    /\ Done(1) /\ Done(2)
    /\ args[1].schemas = <<>> /\ args[2].schemas = <<>>
    /\ args[1].parentSchemaName = Some("p")

\* C14: two calls with the same array and the same parent name return
\* arrays of the same length whose entries agree, one by one, in name and
\* in every other field.
C14_SameInputSameOutput ==
    \A c, d \in Calls : Done(c) /\ Done(d) /\ args[c] = args[d] =>
        /\ Len(result[c]) = Len(result[d])
        /\ \A k \in DOMAIN result[c] : Out(c, k) = Out(d, k)

\* Two calls on the same forest with the same parent name have returned two
\* entries or more, in different objects.
C14_Witness ==
    /\ Done(1) /\ Done(2)
    /\ args[1] = args[2]
    /\ args[1].schemas = roots
    /\ args[1].parentSchemaName = Some("p")
    /\ Len(result[1]) >= 2
    /\ result[1] # result[2]

\* The number of nesting levels of the forest s: 0 for the empty array, 1 for
\* an array of leaves.
RECURSIVE Depth(_, _)
Depth(h, s) ==
    IF s = <<>> THEN 0
    ELSE LET below == IF IsLeafNode(h[Head(s)]) THEN 0
                      ELSE Depth(h, h[Head(s)].subAttributes)
             rest  == Depth(h, Tail(s))
         IN  IF 1 + below > rest THEN 1 + below ELSE rest

\* The activations of flattenSchemas that call c has open.
ActiveCalls(c) == Len(stack[c])

\* C15: every call returns, and while it runs it has at most as many
\* activations open as the forest has nesting levels (the one activation of
\* a call on the empty array apart).
C15_TerminatesWithinDepth ==
    /\ [](\A c \in Calls :
            status[c] = "running" =>
                ActiveCalls(c) <= IF args[c].schemas = <<>> THEN 1
                                  ELSE Depth(before[c], args[c].schemas))
    /\ \A c \in Calls : (status[c] = "running") ~> Done(c)

\* A call on a forest of three nesting levels has three activations open.
C15_Witness ==
    \E c \in Calls :
        /\ status[c] = "running"
        /\ Depth(before[c], args[c].schemas) = 3
        /\ ActiveCalls(c) = 3

\* C16: calls whose steps interleave on one forest each return the records
\* they return when run alone, and no object that existed when a call was
\* entered has changed.
C16_InterleavedAsAlone ==
    \A c \in Calls :
        /\ Done(c) =>
              [k \in DOMAIN result[c] |-> Out(c, k)]
                  = FlattenAlone(before[c], args[c].schemas, args[c].parentSchemaName)
        /\ status[c] # "idle" =>
              \A ref \in DOMAIN before[c] : heap[ref] = before[c][ref]

\* Two calls on the forest have returned, and their steps were interleaved:
\* the second call made its first copy between two copies of the first.
C16_Witness ==
    /\ Done(1) /\ Done(2)
    /\ args[1].schemas = roots /\ args[2].schemas = roots
    /\ Len(result[1]) >= 2
    /\ result[1][1] < result[2][1]
    /\ result[2][1] < result[1][2]

\* The parent name under which the leaf of the record info is copied: the
\* argument of the call for a member of its array, else what the name field
\* of its group holds.
EffectiveParent(c, info) ==
    IF info.parent = 0 THEN args[c].parentSchemaName
    ELSE Get(before[c][info.parent], "name")

\* C17: objects without a name end no call in an error: a running call can
\* always take its next step, a call returns one entry per leaf, and under a
\* non-empty parent name p a leaf is named p.<its name>, p.undefined when it
\* has no name.
C17_NamelessLeafEmitted ==
    \A c \in Calls :
        /\ status[c] = "running" =>
              ENABLED (VisitGroup(c) \/ VisitLeaf(c) \/ ReturnInner(c) \/ ReturnOuter(c))
        /\ Done(c) =>
              LET leaves == InputLeaves(c) IN
              /\ Len(result[c]) = Len(leaves)
              /\ \A k \in DOMAIN leaves :
                    LET schema == before[c][leaves[k].leaf]
                        p == EffectiveParent(c, leaves[k])
                    IN  Truthy(p) =>
                          Get(Out(c, k), "name") =
                              Some(p[1] \o "." \o
                                   (IF "name" \in DOMAIN schema THEN schema.name
                                    ELSE "undefined"))

\* A call with parent name 'p' on two objects, one of them without a name,
\* has returned an entry named p.undefined and an entry for the other.
C17_Witness ==
    \E c \in Calls :
        /\ Done(c)
        /\ args[c].schemas = roots
        /\ args[c].parentSchemaName = Some("p")
        /\ \E i \in DOMAIN roots : "name" \notin DOMAIN before[c][roots[i]]
        /\ Len(result[c]) = 2
        /\ \E k \in DOMAIN result[c] : Get(Out(c, k), "name") = Some("p.undefined")
        /\ \E k \in DOMAIN result[c] : Get(Out(c, k), "name") = Some("p.a")

\* C18: a call returns one entry for each object whose subAttributes is
\* absent or empty, in order, a copy that has subAttributes as the object
\* has it, and no entry for an object with a sub attribute.
C18_LeafIffNoSubAttributes ==
    \A c \in Calls : Done(c) =>
        LET leaves == InputLeaves(c) IN
        /\ Len(result[c]) = Len(leaves)
        /\ \A k \in DOMAIN leaves :
              /\ CopyOf(c, k, leaves[k].leaf)
              /\ Get(Out(c, k), "subAttributes")
                    = Get(before[c][leaves[k].leaf], "subAttributes")
        /\ \A k \in DOMAIN result[c] :
              \A ref \in DOMAIN before[c] :
                  /\ "subAttributes" \in DOMAIN before[c][ref]
                  /\ before[c][ref].subAttributes # <<>>
                  => Get(Out(c, k), "displayOrder") # Get(before[c][ref], "displayOrder")

\* A call on a group whose one sub attribute has an empty subAttributes array
\* has returned one entry: the copy of the sub attribute.
C18_Witness ==
    \E c \in Calls :
        /\ Done(c)
        /\ args[c].schemas = roots
        /\ Len(roots) = 1
        /\ ~IsLeafNode(before[c][roots[1]])
        /\ Len(result[c]) = 1
        /\ Get(Out(c, 1), "subAttributes") = Some(<<>>)

\* C19: a leaf copied under the parent name '' (passed to the call, or the
\* name of its group) or under a group without a name keeps its name as it
\* is: the entry equals the object, field by field.
C19_EmptyParentNameAsAbsent ==
    \A c \in Calls : Done(c) =>
        LET leaves == InputLeaves(c) IN
        /\ Len(result[c]) = Len(leaves)
        /\ \A k \in DOMAIN leaves :
              LET p == EffectiveParent(c, leaves[k]) IN
              p = Some("") \/ (leaves[k].parent # 0 /\ p = Undefined)
                  => Out(c, k) = before[c][leaves[k].leaf]

\* A call has returned the leaf 'a' of a group named '' under the name 'a',
\* though it was given the parent name 'p'.
C19_Witness ==
    \E c \in Calls :
        /\ Done(c)
        /\ args[c].schemas = roots
        /\ args[c].parentSchemaName = Some("p")
        /\ Len(roots) = 1
        /\ Get(before[c][roots[1]], "name") = Some("")
        /\ Len(result[c]) = 1
        /\ Get(Out(c, 1), "name") = Some("a")

\* Submission s is over: handleFormSubmission has returned and no request
\* and no handler of it is outstanding.
Settled(s) == form[s].pc = "returned"

\* C20: when a submission is over, its callback has been invoked once,
\* whatever was changed and however the requests ended.
C20_CallbackOnceWhenSettled ==
    \A s \in Submissions : Settled(s) => form[s].callback = 1

\* C21: in a submission that changed both the application details and the
\* protocol configuration, the protocol update is not requested unless the
\* details update has resolved; once the details update is rejected, the
\* protocol update has not been requested and onUpdate has not been called.
C21_ProtocolAfterDetails ==
    \A s \in Submissions :
        form[s].applicationConfigurations /\ form[s].protocolConfigurations =>
            /\ form[s].updateAuthProtocolConfig # "none"
                  => form[s].updateApplicationDetails = "resolved"
            /\ form[s].updateAuthProtocolConfig # "none" => form[s].onUpdate = 1
            /\ form[s].updateApplicationDetails \in Rejections =>
                  /\ form[s].updateAuthProtocolConfig = "none"
                  /\ form[s].onUpdate = 0

\* Two submissions changed both: in one the details update resolved and the
\* protocol update went out, the other is over after a rejected details
\* update.
C21_Witness ==
    \E s, t \in Submissions :
        /\ form[s].applicationConfigurations /\ form[s].protocolConfigurations
        /\ form[s].updateApplicationDetails = "resolved"
        /\ form[s].updateAuthProtocolConfig = "pending"
        /\ form[t].applicationConfigurations /\ form[t].protocolConfigurations
        /\ form[t].updateApplicationDetails \in Rejections
        /\ Settled(t)

\* The requests of submission s that have gone out.
IssuedRequests(s) ==
    {r \in {form[s].updateApplicationDetails, form[s].updateAuthProtocolConfig} :
        r # "none"}

\* C22: a submission has at most one success alert; when it has one, every
\* request it has sent has resolved and it has no error alert.
C22_OneSuccessAlertAfterAllSucceeded ==
    \A s \in Submissions :
        /\ form[s].successAlerts <= 1
        /\ form[s].successAlerts >= 1 =>
              /\ IssuedRequests(s) = {"resolved"}
              /\ form[s].errorAlerts = 0
              /\ form[s].protocolConfigurations
                    => form[s].updateAuthProtocolConfig = "resolved"

\* A submission that changed both is over with both requests resolved and
\* one success alert.
C22_Witness ==
    \E s \in Submissions :
        /\ Settled(s)
        /\ form[s].applicationConfigurations /\ form[s].protocolConfigurations
        /\ form[s].updateApplicationDetails = "resolved"
        /\ form[s].updateAuthProtocolConfig = "resolved"
        /\ form[s].successAlerts = 1

\* The promise of call k has settled.
TenantSettled(k) == tenant[k].pc = "settled"

\* The client resolved the request of call k with a status other than 200.
InvalidStatus(k) ==
    tenant[k].response # Undefined /\ tenant[k].response[1].status # StatusOK

\* The client rejected the request of call k.
TransportFailure(k) ==
    tenant[k].response = Undefined /\ tenant[k].thrown # Undefined

\* C23: the promise of a call resolves only on a response of status 200, and
\* then with the data of the response; on any other status and on a failure
\* of the client it rejects with an IdentityAppsApiException; a call sends
\* one PUT request, never a second.
C23_ResolvesOnlyOn200 ==
    \A k \in TenantCalls :
        /\ tenant[k].pc # "idle" =>
              Len(tenant[k].requests) = 1 /\ tenant[k].requests[1].method = "PUT"
        /\ TenantSettled(k) =>
              LET outcome == tenant[k].outcome[1] IN
              /\ outcome.state = "resolved" =>
                    /\ tenant[k].response # Undefined
                    /\ tenant[k].response[1].status = StatusOK
                    /\ outcome.value = tenant[k].response[1].data
              /\ InvalidStatus(k) \/ TransportFailure(k) =>
                    /\ outcome.state = "rejected"
                    /\ outcome.value.name = "IdentityAppsApiException"

\* One call has resolved on status 200, another has rejected after a
\* response of another status.
C23_Witness ==
    \E k, l \in TenantCalls :
        /\ TenantSettled(k) /\ tenant[k].outcome[1].state = "resolved"
        /\ TenantSettled(l) /\ InvalidStatus(l)
        /\ tenant[l].outcome[1].state = "rejected"

\* C24: after a response of a status other than 200 the exception the
\* caller gets has the message TENANT_OWNER_UPDATE_INVALID_STATUS_ERROR and
\* the status as its code; after a failure of the client it has the message
\* TENANT_OWNER_UPDATE_ERROR.
C24_InvalidStatusDistinguished ==
    \A k \in TenantCalls : TenantSettled(k) =>
        LET outcome == tenant[k].outcome[1] IN
        /\ InvalidStatus(k) =>
              /\ outcome.value.message = TENANT_OWNER_UPDATE_INVALID_STATUS_ERROR
              /\ outcome.value.code = tenant[k].response[1].status
        /\ TransportFailure(k) =>
              outcome.value.message = TENANT_OWNER_UPDATE_ERROR

\* C26: when the effect that tracks the steps has run, currentWizardStep is
\* wizStep + 1; the Previous button is rendered exactly when
\* currentWizardStep > 1 and the primary button reads Finish exactly when
\* currentWizardStep = totalStep.
C26_StepTracksWizStep ==
    ~EffectPending(wizard) =>
        /\ wizard.currentWizardStep = wizard.wizStep + 1
        /\ wizard.actions.previous <=> wizard.currentWizardStep > 1
        /\ wizard.actions.primary = "finish"
              <=> wizard.currentWizardStep = wizard.totalStep

\* The form has reported its second page of two, the effect has run:
\* Previous is there and the primary button reads Finish.
C26_Witness ==
    /\ ~EffectPending(wizard)
    /\ wizard.wizStep = 1
    /\ wizard.totalStep = 2
    /\ wizard.currentWizardStep = 2
    /\ wizard.actions = [previous |-> TRUE, primary |-> "finish"]

\* C25: a createIdentityProvider call that has resolved has pushed one
\* navigation: with a location header that is not empty, to the edit page of
\* the id that is the text after the last '/' of the location, otherwise to
\* the list of identity providers.  A call that has been rejected has pushed
\* none and has set one error alert, and closeWizard has been called only
\* when the user closed the wizard.
C25_OneNavigationOnSuccess ==
    /\ wizard.closeWizard = wizard.closeEvents
    /\ \A i \in DOMAIN wizard.calls :
          LET call == wizard.calls[i] IN
          /\ call.state = "pending" =>
                call.navigations = <<>> /\ call.errorAlerts = 0
          /\ call.state = "resolved" =>
                /\ Len(call.navigations) = 1
                /\ call.errorAlerts = 0
                /\ IF call.location # Undefined /\ call.location[1] # <<>>
                   THEN LET location == call.location[1]
                            id == call.navigations[1].id[1]
                            cut == Len(location) - Len(id)
                        IN  /\ call.navigations[1].pathname = "IDP_EDIT"
                            /\ \A k \in DOMAIN id : id[k] # "/"
                            /\ cut >= 0
                            /\ id = SubSeq(location, cut + 1, Len(location))
                            /\ cut > 0 => location[cut] = "/"
                   ELSE call.navigations[1] = [pathname |-> "IDP", id |-> Undefined]
          /\ call.state \in Rejections =>
                /\ call.navigations = <<>>
                /\ call.errorAlerts = 1
                /\ call.successAlerts = 0

\* With the wizard still open, one call was rejected and the next resolved
\* with the location x/x: the id of the edit page is x.
C25_Witness ==
    /\ WizardOpen
    /\ Len(wizard.calls) = 2
    /\ wizard.calls[1].state \in Rejections
    /\ wizard.calls[2].state = "resolved"
    /\ wizard.calls[2].location = Some(<<"x", "/", "x">>)
    /\ wizard.calls[2].navigations = <<[pathname |-> "IDP_EDIT", id |-> Some(<<"x">>)]>>

\* C27: the identity provider every submission hands to
\* createIdentityProvider has five properties: ClientId, ClientSecret,
\* OAuth2AuthzEPUrl, OAuth2TokenEPUrl and callbackUrl, with the values of
\* that submission; the one of the latest submission is the shared object
\* template.idp as it is now.
C27_FivePropertiesFromLatestValues ==
    /\ \A i \in DOMAIN wizard.calls :
          LET call == wizard.calls[i]
              properties == call.identityProvider.properties
          IN  /\ [k \in DOMAIN properties |-> properties[k].key]
                    = <<"ClientId", "ClientSecret", "OAuth2AuthzEPUrl",
                        "OAuth2TokenEPUrl", "callbackUrl">>
              /\ [k \in 1..4 |-> properties[k].value]
                    = <<call.values.clientId, call.values.clientSecret,
                        call.values.authorizationEndpointUrl,
                        call.values.tokenEndpointUrl>>
              /\ call.identityProvider.name = call.values.name
    /\ wizard.calls # <<>> =>
          wizard.idp = wizard.calls[Len(wizard.calls)].identityProvider

\* After a rejected creation the wizard was submitted again with other
\* values: template.idp has the five properties of the second submission.
C27_Witness ==
    /\ Len(wizard.calls) = 2
    /\ wizard.calls[1].state \in Rejections
    /\ wizard.calls[1].values.clientId = Some("c1")
    /\ wizard.calls[2].values.clientId = Some("c2")
    /\ wizard.calls[1].identityProvider.properties[1].value = Some("c1")
    /\ wizard.idp.properties[1].value = Some("c2")
    /\ Len(wizard.idp.properties) = 5

=============================================================================
